---- MODULE Spec2Model ----
(***************************************************************************)
(* TThreadedServer (lib/cpp/src/server/TThreadedServer.cpp): the accept    *)
(* loop TThreadedServer::serve(), the per-connection worker               *)
(* TThreadedServer::Task::run(), the registry tasks_ guarded by the       *)
(* monitor tasksMonitor_, and the stop flag stop_.                        *)
(*                                                                         *)
(* One action per step of serve() and of run(); a step is cut wherever    *)
(* another thread can observe or change what the step reads (stop_,       *)
(* tasks_, the monitor's mutex).  Every call on a collaborator (listening *)
(* transport, factories, processor, event handler, thread factory,        *)
(* channel close, the monitor's lock and wait) returns or throws; which,  *)
(* and what kind of exception, is an input drawn with \E.  The kinds are  *)
(* the ones the catch clauses of the file tell apart.  Workers run        *)
(* concurrently with each other and with serve().                         *)
(***************************************************************************)
EXTENDS Integers, Sequences, FiniteSets, TLC

\* Bounds of the model.
MaxConn == 2
MaxCalls == 2

Conns == 1..MaxConn

\* Exception kinds, as the catch clauses of serve() tell them apart:
\*   "ttxI"  TTransportException of type INTERRUPTED
\*   "ttxO"  TTransportException of any other type
\*   "tex"   a TException that is no TTransportException
\*   "str"   a std::string
\*   "other" anything else (no catch clause of serve() matches it)
TransportFailures == {"ttxI", "ttxO"}
\* What accept() (line 165) can throw, and what a statement of lines 168-193
\* can throw: nothing in the file restricts either.
AcceptFailures == {"ttxI", "ttxO", "tex", "str", "other"}
StepFailures == {"ttxI", "ttxO", "tex", "str", "other"}
\* What the Synchronized constructor of line 230 and wait() of line 232 can
\* throw, as the catch clause of line 234 tells it apart: a TException
\* ("tex") or anything else ("other").
MonitorFailures == {"tex", "other"}

\* What a worker's collaborators can do:
\*   hook   an event-handler call returns ("ok") or throws ("throw")
\*   proc   process() returns true ("continue") or false ("nomore"), or throws
\*          TTransportException ("ttx"), another TException ("tex"), or
\*          anything else ("unknown"): the catch clauses of lines 66-74
\*   peek   data available ("yes"), none ("no"), or it throws, with the same
\*          kinds and the same catch clauses as process()
\*   close  a channel close returns ("ok"), throws TTransportException ("ttx"),
\*          or throws anything else ("other"), which the catch clauses of
\*          lines 81 and 87 do not match
\*   lock   the Synchronized constructor of line 94 returns ("ok") or throws
\*          ("throw")
FullEnv ==
  [hook |-> {"ok", "throw"},
   proc |-> {"continue", "nomore", "ttx", "tex", "unknown"},
   peek |-> {"yes", "no", "ttx", "tex", "unknown"},
   close |-> {"ok", "ttx", "other"},
   lock |-> {"ok", "throw"}]

\* The statements of serve() lines 168-184 that can throw, in order.
WrapPoints ==
  {"inputTransport", "outputTransport", "inputProtocol", "outputProtocol", "newThread"}

VARIABLES
  stop_,             \* the stop flag
  stopCalls,         \* stop() calls since the flag was last false: 0, 1, or
                     \* 2 for two or more (history)
  eventHandler_,     \* TRUE iff an event handler is installed (non-NULL)
  serverTransport_,  \* "init", "listening" or "closed"
  tasks_,            \* the registry: set of task identities (Task* values)
  monitorLocked,     \* TRUE iff some thread holds tasksMonitor_'s mutex
  notified,          \* a notify() reached the thread blocked in wait()
  signals,           \* tasks whose deregistration called notify() (history)
  sv,                \* serve(): program counter and local variables
  nextConn,          \* identity of the next connection accept() returns
  task,              \* per connection: the Task's run() position and record
  chan,              \* per connection: close() calls on its three transports
  lastResult,        \* "running", or how the latest serve() ended (history)
  sd,                \* shutdown steps the current serve() has done (history)
  zd                 \* zero-worker drain scenario marker (history)

vars ==
  <<stop_, stopCalls, eventHandler_, serverTransport_, tasks_, monitorLocked,
    notified, signals, sv, nextConn, task, chan, lastResult, sd, zd>>

\* serve()'s locals as they are on entry (lines 136-140) and after it is left.
\* stopAtExc records the stop flag at the moment accept() threw (history).
ServeLocals ==
  [pc |-> "idle", client |-> FALSE, inputTransport |-> FALSE,
   outputTransport |-> FALSE, cur |-> 0, exc |-> "none", woken |-> FALSE,
   log |-> "none", stopAtExc |-> FALSE]

\* A Task that does not exist yet; id is the Task's address (0: none).
\* calls, lastProc, lastPeek and log record the processing loop in progress
\* (history), then log the messages of the closes; begins and ends count the
\* hook calls.
NoTask ==
  [pc |-> "none", id |-> 0, calls |-> 0, lastProc |-> "none", lastPeek |-> "none",
   log |-> {}, begins |-> 0, ends |-> 0, inFailed |-> FALSE, outFailed |-> FALSE]

NoCloses == [in |-> 0, out |-> 0, raw |-> 0]

Init ==
  /\ stop_ = FALSE
  /\ stopCalls = 0
  /\ eventHandler_ \in BOOLEAN
  /\ serverTransport_ = "init"
  /\ tasks_ = {}
  /\ monitorLocked = FALSE
  /\ notified = FALSE
  /\ signals = {}
  /\ sv = ServeLocals
  /\ nextConn = 1
  /\ task = [c \in Conns |-> NoTask]
  /\ chan = [c \in Conns |-> NoCloses]
  /\ lastResult = "none"
  /\ sd = <<>>
  /\ zd = "no"

----------------------------------------------------------------------------
\* stop(): sets the stop flag, nothing else.
Stop ==
  /\ stop_' = TRUE
  /\ stopCalls' = IF stopCalls = 0 THEN 1 ELSE 2
  /\ zd' = IF sv.pc = "accept" /\ nextConn = 1 THEN "armed" ELSE zd
  /\ UNCHANGED <<eventHandler_, serverTransport_, tasks_, monitorLocked, notified,
                 signals, sv, nextConn, task, chan, lastResult, sd>>

----------------------------------------------------------------------------
\* serve()

\* serve() is left (return, or an exception nothing in serve() catches):
\* its locals go out of scope.
Leave(result, msg) ==
  /\ sv' = [ServeLocals EXCEPT !.log = msg]
  /\ lastResult' = result
  /\ zd' = "no"

\* A caller invokes serve().
Serve ==
  /\ sv.pc = "idle"
  /\ sv' = [ServeLocals EXCEPT !.pc = "listen"]
  /\ lastResult' = "running"
  /\ sd' = <<>>
  /\ UNCHANGED <<stop_, stopCalls, eventHandler_, serverTransport_, tasks_,
                 monitorLocked, notified, signals, nextConn, task, chan, zd>>

\* Lines 142-149: listen(); on TTransportException log and return; anything
\* else listen() throws is not caught and leaves serve().
Listen ==
  /\ sv.pc = "listen"
  /\ \/ /\ serverTransport_' = "listening"
        /\ sv' = [sv EXCEPT !.pc = "preServe"]
        /\ UNCHANGED <<lastResult, zd>>
     \/ /\ Leave("listenFailed", "listen")
        /\ UNCHANGED serverTransport_
     \/ /\ Leave("escaped", "none")
        /\ UNCHANGED serverTransport_
  /\ UNCHANGED <<stop_, stopCalls, eventHandler_, tasks_, monitorLocked, notified,
                 signals, nextConn, task, chan, sd>>

\* Lines 151-154: the preServe hook; nothing catches what it throws.
PreServe ==
  /\ sv.pc = "preServe"
  /\ \/ /\ sv' = [sv EXCEPT !.pc = "loopTest"]
        /\ UNCHANGED <<lastResult, zd>>
     \/ /\ eventHandler_
        /\ Leave("escaped", "none")
  /\ UNCHANGED <<stop_, stopCalls, eventHandler_, serverTransport_, tasks_,
                 monitorLocked, notified, signals, nextConn, task, chan, sd>>

\* Line 156: the loop condition.
LoopCondInverted(s) == s
LoopCond(s) == ~s

\* Lines 156-162: test the stop flag; in the loop, reset the locals.  The
\* exception of the previous iteration is gone once its catch clause is left.
LoopTest ==
  /\ sv.pc = "loopTest"
  /\ sv' = IF LoopCond(stop_)
             THEN [ServeLocals EXCEPT !.pc = "accept"]
             ELSE [sv EXCEPT !.pc = "afterLoop", !.log = "none", !.exc = "none",
                             !.stopAtExc = FALSE]
  /\ UNCHANGED <<stop_, stopCalls, eventHandler_, serverTransport_, tasks_,
                 monitorLocked, notified, signals, nextConn, task, chan,
                 lastResult, sd, zd>>

\* A Task whose run() is between its first and its last statement.
Running(c) ==
  task[c].pc \in {"begin", "process", "peek", "end", "closeIn", "closeOut", "dereg", "locked"}

\* Line 165: accept() blocks, then returns a connection or throws; at most
\* MaxConn connections are modelled.
Accept ==
  /\ sv.pc = "accept"
  /\ \/ /\ nextConn <= MaxConn
        /\ sv' = [sv EXCEPT !.pc = "wrap", !.client = TRUE, !.cur = nextConn]
        /\ nextConn' = nextConn + 1
        /\ zd' = "no"
     \/ \E k \in AcceptFailures :
          /\ sv' = [sv EXCEPT !.pc = "catch", !.exc = k, !.stopAtExc = stop_]
          /\ zd' = IF zd = "armed" THEN "go" ELSE zd
          /\ UNCHANGED nextConn
  /\ UNCHANGED <<stop_, stopCalls, eventHandler_, serverTransport_, tasks_,
                 monitorLocked, notified, signals, task, chan,
                 lastResult, sd>>

\* Which of the two wrapped transports are non-NULL when the statement p of
\* lines 168-184 throws.
InputBuilt(p) == p # "inputTransport"
OutputBuilt(p) == p \notin {"inputTransport", "outputTransport"}

\* A Task whose storage is in use.  serve() destroys a Task whose thread it
\* could not start ("dropped"); a Task that was launched belongs to its
\* thread (line 179) until the thread lets go of it.  After run() was left
\* by an exception the thread either keeps the Task for ever ("escaped") or
\* has destroyed it ("released").
Live(c) == task[c].pc \in {"created", "escaped"} \/ Running(c)

\* The addresses new Task (line 173) can return for connection c: one that
\* is in no way known to the registry (named c), or the address of a Task
\* that was destroyed (after a failed start(), or by its thread after an
\* exception left run()) while the registry still holds it, if no Task in
\* use has that address; which one is the allocator's choice.
NewTaskAddresses(c) ==
  {c} \cup {task[d].id : d \in {e \in Conns : /\ task[e].pc \in {"dropped", "released"}
                                               /\ task[e].id \in tasks_
                                               /\ \A f \in Conns :
                                                    Live(f) => task[f].id # task[e].id}}

\* Lines 167-184: wrap the connection, construct the Task and its Thread.
MakeTask ==
  /\ sv.pc = "wrap"
  /\ \/ /\ sv' = [sv EXCEPT !.pc = "insert", !.inputTransport = TRUE,
                            !.outputTransport = TRUE]
        /\ \E a \in NewTaskAddresses(sv.cur) :
             task' = [task EXCEPT ![sv.cur].pc = "created", ![sv.cur].id = a]
     \/ \E p \in WrapPoints, k \in StepFailures :
          /\ sv' = [sv EXCEPT !.pc = "catch", !.exc = k,
                              !.inputTransport = InputBuilt(p),
                              !.outputTransport = OutputBuilt(p)]
          /\ UNCHANGED task
  /\ UNCHANGED <<stop_, stopCalls, eventHandler_, serverTransport_, tasks_,
                 monitorLocked, notified, signals, nextConn, chan,
                 lastResult, sd, zd>>

\* Line 189: the registry after the insert of the Task at address c (a
\* std::set: inserting an address it holds changes nothing).
Registered(ts, c) == ts \cup {c}

\* Lines 186-190: under the monitor's mutex, insert the task; if the
\* Synchronized constructor or the insert throws, the mutex is not held
\* afterwards, the registry is as it was and the Task is destroyed with the
\* try block's locals.
InsertTask ==
  /\ sv.pc = "insert"
  /\ \/ /\ ~monitorLocked
        /\ tasks_' = Registered(tasks_, task[sv.cur].id)
        /\ sv' = [sv EXCEPT !.pc = "start"]
        /\ UNCHANGED task
     \/ \E k \in StepFailures :
          /\ task' = [task EXCEPT ![sv.cur].pc = "dropped"]
          /\ sv' = [sv EXCEPT !.pc = "catch", !.exc = k]
          /\ UNCHANGED tasks_
  /\ UNCHANGED <<stop_, stopCalls, eventHandler_, serverTransport_, monitorLocked,
                 notified, signals, nextConn, chan, lastResult,
                 sd, zd>>

\* Lines 192-193: thread->start(); the thread runs Task::run(), or start() throws
\* and the Task is destroyed with the try block's locals.
StartThread ==
  /\ sv.pc = "start"
  /\ \/ /\ task' = [task EXCEPT ![sv.cur].pc = "begin"]
        /\ sv' = [sv EXCEPT !.pc = "loopTest"]
     \/ \E k \in StepFailures :
          /\ task' = [task EXCEPT ![sv.cur].pc = "dropped"]
          /\ sv' = [sv EXCEPT !.pc = "catch", !.exc = k]
  /\ UNCHANGED <<stop_, stopCalls, eventHandler_, serverTransport_, tasks_,
                 monitorLocked, notified, signals, nextConn, chan,
                 lastResult, sd, zd>>

\* The close() calls that open a catch clause (lines 196-198, 205-207, 212-214),
\* in order input, output, client, each on a non-NULL transport only; f names
\* the close that throws ("none": all return).  A close that throws ends the
\* sequence.
CleanupCloses(ch, f) ==
  [in  |-> ch.in + (IF sv.inputTransport THEN 1 ELSE 0),
   out |-> ch.out + (IF sv.outputTransport /\ f # "in" THEN 1 ELSE 0),
   raw |-> ch.raw + (IF sv.client /\ f \notin {"in", "out"} THEN 1 ELSE 0)]

\* The closes of a catch clause that can be attempted, hence can throw.
CleanupPoints ==
  {"none"} \cup (IF sv.inputTransport THEN {"in"} ELSE {})
           \cup (IF sv.outputTransport THEN {"out"} ELSE {})
           \cup (IF sv.client THEN {"client"} ELSE {})

\* Line 199 without the test of the exception's type.
AcceptLogCondStopOnly(stopped, k) == ~stopped

\* Line 199: whether the TTransportException clause logs.
AcceptLogCond(stopped, k) == ~stopped \/ k # "ttxI"

\* What each catch clause logs once its closes have returned.
CatchLog(k) ==
  CASE k \in {"ttxI", "ttxO"} -> IF AcceptLogCond(stop_, k) THEN "accept" ELSE "none"
    [] k = "tex" -> "texception"
    [] OTHER -> "unknown"

\* Where each catch clause goes: continue (lines 203, 210) or break (line 217).
CatchNext(k) == IF k = "str" THEN "afterLoop" ELSE "loopTest"

\* Lines 195-218: the catch clauses of the loop body.
Catch ==
  /\ sv.pc = "catch"
  /\ \/ /\ sv.exc = "other"
        /\ Leave("escaped", "none")
        /\ UNCHANGED chan
     \/ /\ sv.exc # "other"
        /\ \E f \in CleanupPoints :
             /\ chan' = IF sv.cur = 0 THEN chan
                        ELSE [chan EXCEPT ![sv.cur] = CleanupCloses(chan[sv.cur], f)]
             /\ IF f = "none"
                  THEN /\ sv' = [sv EXCEPT !.pc = CatchNext(sv.exc),
                                           !.log = CatchLog(sv.exc)]
                       /\ UNCHANGED <<lastResult, zd>>
                  ELSE Leave("escaped", "none")
  /\ UNCHANGED <<stop_, stopCalls, eventHandler_, serverTransport_, tasks_,
                 monitorLocked, notified, signals, nextConn, task, sd>>

\* Line 222: the shutdown path is taken iff the stop flag is set now.
AfterLoop ==
  /\ sv.pc = "afterLoop"
  /\ IF stop_
       THEN /\ sv' = [sv EXCEPT !.pc = "closeServer", !.log = "none", !.exc = "none"]
            /\ UNCHANGED <<lastResult, zd>>
       ELSE Leave("abandoned", "none")
  /\ UNCHANGED <<stop_, stopCalls, eventHandler_, serverTransport_, tasks_,
                 monitorLocked, notified, signals, nextConn, task, chan, sd>>

\* Lines 223-228: close the listening transport; a TException is logged;
\* anything else close() throws is not caught and leaves serve().
CloseServer ==
  /\ sv.pc = "closeServer"
  /\ \/ /\ serverTransport_' = "closed"
        /\ sv' = [sv EXCEPT !.pc = "waitLock", !.log = "none"]
        /\ UNCHANGED <<lastResult, zd>>
     \/ /\ UNCHANGED serverTransport_
        /\ sv' = [sv EXCEPT !.pc = "waitLock", !.log = "shutdown"]
        /\ UNCHANGED <<lastResult, zd>>
     \/ /\ UNCHANGED serverTransport_
        /\ Leave("escaped", "none")
  /\ sd' = Append(sd, "close")
  /\ UNCHANGED <<stop_, stopCalls, eventHandler_, tasks_, monitorLocked, notified,
                 signals, nextConn, task, chan>>

\* Lines 229-237: a statement of the try block throws k.  A TException is
\* caught at line 234 and logged, and serve() goes on to line 238 whatever
\* the registry holds; anything else is not caught and leaves serve().
WaitFailed(k) ==
  IF k = "tex"
    THEN /\ sv' = [sv EXCEPT !.pc = "reset", !.log = "joining"]
         /\ sd' = Append(sd, "waitFailed")
         /\ UNCHANGED <<lastResult, zd>>
    ELSE /\ Leave("escaped", "none")
         /\ UNCHANGED sd

\* Line 230: Synchronized s(tasksMonitor_) takes the mutex, or throws.
WaitLock ==
  /\ sv.pc = "waitLock"
  /\ \/ /\ ~monitorLocked
        /\ monitorLocked' = TRUE
        /\ sv' = [sv EXCEPT !.pc = "waitTest", !.woken = FALSE, !.log = "none"]
        /\ UNCHANGED <<lastResult, sd, zd>>
     \/ /\ \E k \in MonitorFailures : WaitFailed(k)
        /\ UNCHANGED monitorLocked
  /\ UNCHANGED <<stop_, stopCalls, eventHandler_, serverTransport_, tasks_, notified,
                 signals, nextConn, task, chan>>

\* Line 231: the condition of the wait loop; woken says the test follows a
\* return of wait().
WaitCond(ts, woken) == ts # {}

\* Lines 231-237: test under the mutex; wait() releases the mutex and blocks
\* in one step, or throws when called; leaving the block, by its end or by
\* an exception, releases the mutex.
WaitTest ==
  /\ sv.pc = "waitTest"
  /\ monitorLocked' = FALSE
  /\ notified' = FALSE
  /\ IF WaitCond(tasks_, sv.woken)
       THEN \/ /\ sv' = [sv EXCEPT !.pc = "waiting"]
               /\ UNCHANGED <<lastResult, sd, zd>>
            \/ \E k \in MonitorFailures : WaitFailed(k)
       ELSE /\ sv' = [sv EXCEPT !.pc = "reset"]
            /\ sd' = Append(sd, "wait")
            /\ UNCHANGED <<lastResult, zd>>
  /\ UNCHANGED <<stop_, stopCalls, eventHandler_, serverTransport_, tasks_, signals,
                 nextConn, task, chan>>

\* wait() returns after a notify(), re-acquiring the mutex.
Wake ==
  /\ sv.pc = "waiting"
  /\ notified
  /\ ~monitorLocked
  /\ monitorLocked' = TRUE
  /\ notified' = FALSE
  /\ sv' = [sv EXCEPT !.pc = "waitTest", !.woken = TRUE]
  /\ UNCHANGED <<stop_, stopCalls, eventHandler_, serverTransport_, tasks_, signals,
                 nextConn, task, chan, lastResult, sd, zd>>

\* wait() returns with no notify() (a condition variable may do so).
SpuriousWake ==
  /\ sv.pc = "waiting"
  /\ ~notified
  /\ ~monitorLocked
  /\ monitorLocked' = TRUE
  /\ sv' = [sv EXCEPT !.pc = "waitTest", !.woken = TRUE]
  /\ UNCHANGED <<stop_, stopCalls, eventHandler_, serverTransport_, tasks_, notified,
                 signals, nextConn, task, chan, lastResult, sd, zd>>

\* Lines 232-237: wait() throws after it blocked; like a return of wait(), the
\* throw has the mutex back, and leaving the block releases it.
WaitThrows ==
  /\ sv.pc = "waiting"
  /\ ~monitorLocked
  /\ notified' = FALSE
  /\ \E k \in MonitorFailures : WaitFailed(k)
  /\ UNCHANGED <<stop_, stopCalls, eventHandler_, serverTransport_, tasks_,
                 monitorLocked, signals, nextConn, task, chan>>

\* Line 238: the value the shutdown path leaves in the stop flag.
FlagAfterShutdown(s) == FALSE

\* Lines 238-241: reset the stop flag and return.
ResetStop ==
  /\ sv.pc = "reset"
  /\ stop_' = FlagAfterShutdown(stop_)
  /\ stopCalls' = IF stop_' THEN stopCalls ELSE 0
  /\ sd' = Append(sd, "reset")
  /\ Leave("shutdown", "none")
  /\ UNCHANGED <<eventHandler_, serverTransport_, tasks_, monitorLocked, notified,
                 signals, nextConn, task, chan>>

----------------------------------------------------------------------------
\* Task::run(), for the task of connection c; e gives what the collaborators
\* can do.

\* What becomes of a Task whose run() was left by an exception: its thread
\* keeps it ("escaped") or destroys it ("released"); the thread is not part
\* of this file.
EscapeOutcomes == {"escaped", "released"}

\* The record of a Task whose run() was left by an exception: nothing of the
\* rest of run() is executed for it.
Escaped(c, r) == [NoTask EXCEPT !.pc = r, !.id = task[c].id]

\* The tasks after an exception has left the run() of the Task of connection c.
Escapes(c) == {[task EXCEPT ![c] = Escaped(c, r)] : r \in EscapeOutcomes}

\* Lines 55-59: fetch the event handler and call clientBegin; the call is
\* outside every try block, so what it throws leaves run(): nothing of the
\* rest of run() is executed for this task.
ClientBegin(c, e) ==
  /\ task[c].pc = "begin"
  /\ \E h \in (IF eventHandler_ THEN e.hook ELSE {"absent"}) :
       IF h = "throw"
         THEN task' \in Escapes(c)
         ELSE task' = [task EXCEPT ![c].pc = "process",
                                   ![c].begins = @ + (IF h = "absent" THEN 0 ELSE 1)]
  /\ UNCHANGED <<stop_, stopCalls, eventHandler_, serverTransport_, tasks_,
                 monitorLocked, notified, signals, sv, nextConn, chan,
                 lastResult, sd, zd>>

\* Lines 61 and 66-74: where run() goes after process() did o.
\* Lines 61-77 with the clientEnd call inside the try block: an exception of
\* process() skips it.
AfterProcessSkippingEnd(o) ==
  IF o = "continue" THEN "peek" ELSE IF o = "nomore" THEN "end" ELSE "closeIn"
AfterProcess(o) == IF o = "continue" THEN "peek" ELSE "end"

\* Lines 66-74: what the catch clauses of the loop log.
ProcLog(o) ==
  CASE o = "ttx" -> {"died"}
    [] o = "tex" -> {"exception"}
    [] o = "unknown" -> {"uncaught"}
    [] OTHER -> {}

\* Line 61: one call of processor_->process().
Process(c, e) ==
  /\ task[c].pc = "process"
  /\ \E o \in e.proc :
       task' = [task EXCEPT ![c].pc = AfterProcess(o),
                            ![c].calls = @ + 1,
                            ![c].lastProc = o,
                            ![c].lastPeek = "none",
                            ![c].log = @ \cup ProcLog(o)]
  /\ UNCHANGED <<stop_, stopCalls, eventHandler_, serverTransport_, tasks_,
                 monitorLocked, notified, signals, sv, nextConn, chan,
                 lastResult, sd, zd>>

\* Lines 62-64: where run() goes after peek() did p.
AfterPeek(p) == IF p = "yes" THEN "process" ELSE "end"

\* Line 62: the peek between two cycles, inside the try block of lines 60-74;
\* at most MaxCalls cycles are modelled.
Peek(c, e) ==
  /\ task[c].pc = "peek"
  /\ \E p \in e.peek :
       /\ p = "yes" => task[c].calls < MaxCalls
       /\ task' = [task EXCEPT ![c].pc = AfterPeek(p),
                               ![c].lastPeek = p,
                               ![c].log = @ \cup ProcLog(p)]
  /\ UNCHANGED <<stop_, stopCalls, eventHandler_, serverTransport_, tasks_,
                 monitorLocked, notified, signals, sv, nextConn, chan,
                 lastResult, sd, zd>>

\* Lines 75-77: clientEnd, outside every try block.
ClientEnd(c, e) ==
  /\ task[c].pc = "end"
  /\ \E h \in (IF eventHandler_ THEN e.hook ELSE {"absent"}) :
       IF h = "throw"
         THEN task' \in Escapes(c)
         ELSE task' = [task EXCEPT ![c].pc = "closeIn",
                                   ![c].ends = @ + (IF h = "absent" THEN 0 ELSE 1)]
  /\ UNCHANGED <<stop_, stopCalls, eventHandler_, serverTransport_, tasks_,
                 monitorLocked, notified, signals, sv, nextConn, chan,
                 lastResult, sd, zd>>

\* The record of a Task without the history of its processing loop, which
\* nothing after line 77 depends on.
LoopForgotten(t) ==
  [t EXCEPT !.calls = 0, !.lastProc = "none", !.lastPeek = "none", !.log = {}]

\* Lines 79-85: where run() goes after the input close did r.
AfterInputClose(r) == IF r \in {"ok", "ttx"} THEN "closeOut" ELSE "escaped"

\* Lines 85-91: where run() goes after the output close did r.
AfterOutputClose(r) == IF r \in {"ok", "ttx"} THEN "dereg" ELSE "escaped"

\* Lines 79-84: close the input channel; a TTransportException is logged,
\* anything else leaves run().
CloseInput(c, e) ==
  /\ task[c].pc = "closeIn"
  /\ \E r \in e.close :
       /\ IF AfterInputClose(r) = "escaped"
            THEN task' \in Escapes(c)
            ELSE task' = [task EXCEPT ![c] = [LoopForgotten(@) EXCEPT
                                      !.pc = AfterInputClose(r),
                                      !.inFailed = (r = "ttx"),
                                      !.log = IF r = "ttx" THEN {"inClose"} ELSE {}]]
       /\ chan' = [chan EXCEPT ![c].in = @ + 1]
  /\ UNCHANGED <<stop_, stopCalls, eventHandler_, serverTransport_, tasks_,
                 monitorLocked, notified, signals, sv, nextConn,
                 lastResult, sd, zd>>

\* Lines 85-90: close the output channel; a TTransportException is logged,
\* anything else leaves run().
CloseOutput(c, e) ==
  /\ task[c].pc = "closeOut"
  /\ \E r \in e.close :
       /\ IF AfterOutputClose(r) = "escaped"
            THEN task' \in Escapes(c)
            ELSE task' = [task EXCEPT ![c].pc = AfterOutputClose(r),
                                      ![c].outFailed = (r = "ttx"),
                                      ![c].log = @ \cup (IF r = "ttx" THEN {"outClose"} ELSE {})]
       /\ chan' = [chan EXCEPT ![c].out = @ + 1]
  /\ UNCHANGED <<stop_, stopCalls, eventHandler_, serverTransport_, tasks_,
                 monitorLocked, notified, signals, sv, nextConn,
                 lastResult, sd, zd>>

\* Line 94: Synchronized s(server_.tasksMonitor_) takes the mutex, or throws;
\* the block of lines 93-99 is in no try block, so what it throws leaves
\* run() with the task still in the registry.
Synchronize(c, e) ==
  /\ task[c].pc = "dereg"
  /\ \E l \in e.lock :
       IF l = "throw"
         THEN /\ task' \in Escapes(c)
              /\ UNCHANGED monitorLocked
         ELSE /\ ~monitorLocked
              /\ monitorLocked' = TRUE
              /\ task' = [task EXCEPT ![c].pc = "locked"]
  /\ UNCHANGED <<stop_, stopCalls, eventHandler_, serverTransport_, tasks_, notified,
                 signals, sv, nextConn, chan, lastResult, sd, zd>>

\* Line 96: whether the deregistration calls notify(), given the registry after
\* the erase.
ShouldNotifyAlways(ts) == TRUE
ShouldNotify(ts) == ts = {}

\* Lines 95-99: erase this task, notify if the registry is now empty, release
\* the mutex; run() returns and the Task is destroyed.  notify() wakes the
\* thread blocked in wait(), if there is one.
EraseAndNotify(c) ==
  /\ task[c].pc = "locked"
  /\ tasks_' = tasks_ \ {task[c].id}
  /\ IF ShouldNotify(tasks_')
       THEN /\ signals' = signals \cup {c}
            /\ notified' = (notified \/ sv.pc = "waiting")
       ELSE UNCHANGED <<signals, notified>>
  /\ monitorLocked' = FALSE
  /\ task' = [task EXCEPT ![c] = [NoTask EXCEPT !.pc = "done", !.id = task[c].id]]
  /\ UNCHANGED <<stop_, stopCalls, eventHandler_, serverTransport_, sv, nextConn,
                 chan, lastResult, sd, zd>>

\* One step of run().
Worker(c, e) ==
  \/ ClientBegin(c, e)
  \/ Process(c, e)
  \/ Peek(c, e)
  \/ ClientEnd(c, e)
  \/ CloseInput(c, e)
  \/ CloseOutput(c, e)
  \/ Synchronize(c, e)
  \/ EraseAndNotify(c)

\* The steps of serve() that the thread takes by itself once serve() is
\* called and that do not wait for anything but the monitor's mutex.
ServeProgress ==
  \/ Listen
  \/ PreServe
  \/ LoopTest
  \/ MakeTask
  \/ InsertTask
  \/ StartThread
  \/ Catch
  \/ AfterLoop
  \/ CloseServer
  \/ WaitLock
  \/ WaitTest
  \/ Wake
  \/ ResetStop

\* Callers of stop() and serve(), the thread of serve(), clients and what the
\* listening transport and the monitor do by themselves, and the workers,
\* whose collaborators may fail in every way.
Next ==
  \/ Stop
  \/ Serve
  \/ ServeProgress
  \/ Accept
  \/ SpuriousWake
  \/ WaitThrows
  \/ \E c \in Conns : Worker(c, FullEnv)

Spec == Init /\ [][Next]_vars

\* Spec where every thread that can take a step eventually takes one.  No
\* fairness for the callers of serve() and stop(), for accept(), which may
\* block for ever, for spurious wake-ups nor for failures of a blocked wait().
FairSpec ==
  /\ Spec
  /\ WF_vars(ServeProgress)
  /\ \A c \in Conns : WF_vars(Worker(c, FullEnv))

----------------------------------------------------------------------------
\* Properties

\* The Task of connection c has its identity in the registry.
InRegistry(c) == task[c].id \in tasks_

\* A Task whose run() has been started by thread->start().
Launched(c) == Running(c) \/ task[c].pc \in {"done", "escaped", "released"}

\* serve() is in its accept loop (lines 156-219).
InServing == sv.pc \in {"loopTest", "accept", "wrap", "insert", "start", "catch"}

\* serve() is in the shutdown wait (lines 230-233).
InWait == sv.pc \in {"waitLock", "waitTest", "waiting"}

\* The steps of the shutdown path, in the order of lines 222-238.
ShutdownOrder == <<"close", "wait", "reset">>

\* C1 (as claimed): once serve() has returned after it observed the stop
\* flag, the registry is empty and each channel of every launched worker has
\* been closed exactly once.
C1_DrainedAfterStop ==
  (sv.pc = "idle" /\ lastResult = "shutdown") =>
    /\ tasks_ = {}
    /\ \A c \in Conns : Launched(c) => chan[c].in = 1 /\ chan[c].out = 1

\* C2 (as claimed): serve() is past the shutdown wait only when the registry
\* is empty.
C2_WaitReturnsOnlyWhenEmpty == sv.pc = "reset" => tasks_ = {}

\* C3 (as claimed): no lost wake-up.  A thread blocked in wait() while the
\* registry is empty has a wake-up pending, and a thread in the shutdown wait
\* with the registry empty eventually returns from the wait to line 238.
C3_NoLostWakeup ==
  /\ [](sv.pc = "waiting" /\ tasks_ = {} => notified)
  /\ ((InWait /\ tasks_ = {}) ~> (sv.pc = "reset"))

\* C4 (as claimed): a run() that has ended, whatever the hooks, the processor
\* and the closes did, has removed its task from the registry.
C4_AlwaysDeregisters ==
  \A c \in Conns : task[c].pc \in {"done", "escaped", "released"} => ~InRegistry(c)

\* C5 (as claimed): a worker attempts the input close once and then,
\* whatever the input close did, the output close once; a failure of the
\* input close is logged; a worker that is past the closes has attempted
\* both, whatever ended its loop.
C5_BothClosesAttempted ==
  /\ [][\A c \in Conns :
          (task[c].pc = "closeIn" /\ task'[c].pc # "closeIn") =>
            /\ chan'[c].in = chan[c].in + 1
            /\ task'[c].pc = "closeOut"
            /\ task'[c].inFailed => "inClose" \in task'[c].log]_vars
  /\ [](\A c \in Conns :
          /\ task[c].pc = "closeIn" => chan[c].in = 0 /\ chan[c].out = 0
          /\ task[c].pc = "closeOut" => chan[c].in = 1 /\ chan[c].out = 0
          /\ task[c].pc \in {"dereg", "locked", "done"} => chan[c].in = 1 /\ chan[c].out = 1
          /\ task[c].outFailed => "outClose" \in task[c].log)

\* C6 (as claimed): process() is called again only after it returned true
\* and peek() reported data; after any other result the loop has ended, and
\* a worker whose loop has ended leaves run() only by its deregistration,
\* with both channels closed once and its identity out of the registry.
C6_LoopContinuation ==
  /\ [][\A c \in Conns :
          task'[c].calls > task[c].calls =>
            /\ task[c].pc = "process"
            /\ task'[c].calls = task[c].calls + 1
            /\ \/ task[c].calls = 0
               \/ task[c].lastProc = "continue" /\ task[c].lastPeek = "yes"]_vars
  /\ [](\A c \in Conns :
          (task[c].lastProc \in {"nomore", "ttx", "tex", "unknown"}
           \/ task[c].lastPeek \in {"no", "ttx", "tex", "unknown"})
            => task[c].pc \notin {"process", "peek"})
  /\ [][\A c \in Conns :
          (task[c].pc \in {"end", "closeIn", "closeOut", "dereg", "locked"}
           /\ ~Running(c)') =>
            /\ task[c].pc = "locked"
            /\ task'[c].pc = "done"
            /\ chan'[c].in = 1
            /\ chan'[c].out = 1
            /\ task[c].id \notin tasks_']_vars

\* C7 (as claimed): serve() leaves its accept loop only by reading the stop
\* flag as true or on an error no catch clause recognizes.
C7_LeavesServingOnlyOnStopOrUnknown ==
  [][(InServing /\ ~InServing') =>
       \/ sv.pc = "loopTest" /\ stop_
       \/ sv.pc = "catch" /\ sv.exc \in {"str", "other"}]_vars

\* C8 (as claimed): zero-worker drain.  Once stop() was called while
\* serve() was blocked in its first accept() and that accept() has failed,
\* serve() never blocks in the wait, the registry stays empty, and serve()
\* is left only by returning through the shutdown path, which it eventually
\* does.
C8_ZeroWorkerDrain ==
  /\ [](zd = "go" => stop_ /\ tasks_ = {} /\ sv.pc # "waiting")
  /\ [][(zd = "go" /\ sv'.pc = "idle") =>
          lastResult' = "shutdown" /\ sd' = ShutdownOrder]_vars
  /\ (zd = "go" ~> (sv.pc = "idle" /\ lastResult = "shutdown" /\ sd = ShutdownOrder))

C10_ResetAfterDrain ==
  /\ [][(sv.pc = "reset" /\ sv' # sv) =>
          /\ sv'.pc = "idle"
          /\ lastResult' = "shutdown"
          /\ Len(sd') = 3
          /\ sd'[1] = "close"
          /\ sd'[3] = "reset"
          /\ tasks_' = {}
          /\ ~stop_'
          /\ LoopCond(stop_')]_vars
  /\ [](sv.pc \in {"closeServer", "waitLock", "waitTest", "waiting", "reset"} => stop_)
  /\ [](InWait => sd = <<"close">>)

\* C11 (as claimed): a serve() whose listen() fails returns from that very
\* step, with the failure logged: it never reaches the preServe hook nor the accept loop, and
\* the step changes neither the stop flag, the registry, the tasks, the
\* connections accepted, the channels nor the listening transport.  A serve()
\* reaches the preServe hook only with the transport listening.
C11_ListenFailureReturns ==
  /\ [][(sv.pc = "listen" /\ sv' # sv) =>
          \/ /\ sv'.pc = "preServe"
             /\ serverTransport_' = "listening"
          \/ /\ sv' = [ServeLocals EXCEPT !.log = "listen"]
             /\ lastResult' = "listenFailed"
             /\ UNCHANGED <<stop_, stopCalls, tasks_, task, nextConn, chan,
                            serverTransport_, monitorLocked, notified, signals>>]_vars
  /\ [][(lastResult' = "listenFailed" /\ lastResult # "listenFailed") =>
          sv.pc = "listen"]_vars
  /\ [](sv.pc = "preServe" => serverTransport_ = "listening")

\* C12 (as claimed): causal ordering of a worker's life.  A thread is started only for a
\* task already in the registry; a task leaves the registry only by its own
\* deregistration, after both closes were attempted; hence a task that is
\* anywhere in run() up to the erase is in the registry, and when the
\* shutdown wait has completed no task is processing, closing or
\* deregistering.
C12_CausalOrdering ==
  /\ [][\A c \in Conns :
          (task[c].pc # "begin" /\ task'[c].pc = "begin") =>
            /\ InRegistry(c)
            /\ task[c].pc = "created"
            /\ sv.pc = "start"]_vars
  /\ [][\A a \in tasks_ \ tasks_' :
          \E c \in Conns :
            /\ task[c].id = a
            /\ task[c].pc = "locked"
            /\ chan[c].in = 1
            /\ chan[c].out = 1]_vars
  /\ [](\A c \in Conns : Running(c) => InRegistry(c))
  /\ [](sv.pc = "reset" => \A c \in Conns : ~Running(c))

\* C13 (as claimed): only the accept loop adds an identity to the registry,
\* the one of the task it is about to launch; only a task removes an identity,
\* its own, at the end of its run, and once; and every identity in the
\* registry is that of a task the current accept iteration is about to
\* launch or of a task that is still running.
C13_RegistryInterval ==
  /\ [][\A a \in tasks_' \ tasks_ :
          /\ sv.pc = "insert"
          /\ task[sv.cur].id = a
          /\ tasks_' = tasks_ \cup {a}]_vars
  /\ [][\A a \in tasks_ \ tasks_' :
          \E c \in Conns :
            /\ task[c].id = a
            /\ task[c].pc = "locked"
            /\ task'[c].pc = "done"
            /\ tasks_' = tasks_ \ {a}]_vars
  /\ [](\A a \in tasks_ :
          \E c \in Conns :
            /\ task[c].id = a
            /\ \/ sv.pc = "start" /\ sv.cur = c /\ task[c].pc = "created"
               \/ Running(c))

\* C14 (as claimed): the catch clause that handles a recognized failure
\* (TTransportException or another TException) of an accept iteration closes
\* each of the input channel, output channel and raw connection that the
\* iteration created, closes nothing of another connection, logs (the
\* expected interruption of accept() under a set stop flag apart), and
\* continues with the next loop test.
C14_RecoverableAcceptCleanup ==
  [][(sv.pc = "catch" /\ sv.exc \in {"ttxI", "ttxO", "tex"} /\ sv' # sv) =>
       /\ sv'.pc = "loopTest"
       /\ sv'.log # "none" \/ (stop_ /\ sv.exc = "ttxI")
       /\ \A c \in Conns :
            IF c = sv.cur
              THEN /\ chan'[c].in = chan[c].in + (IF sv.inputTransport THEN 1 ELSE 0)
                   /\ chan'[c].out = chan[c].out + (IF sv.outputTransport THEN 1 ELSE 0)
                   /\ chan'[c].raw = chan[c].raw + (IF sv.client THEN 1 ELSE 0)
              ELSE chan'[c] = chan[c]]_vars

\* C15 (as claimed): a TTransportException of accept() is logged as an
\* accept-loop error if the stop flag was not set when accept() failed and is
\* not logged if it was set; either way the loop goes on to its next test of
\* the stop flag.
C15_AcceptFailureLogging ==
  [][(sv.pc = "catch" /\ sv.exc \in TransportFailures /\ sv.cur = 0 /\ sv' # sv) =>
       /\ sv'.pc = "loopTest"
       /\ sv'.log = (IF sv.stopAtExc THEN "none" ELSE "accept")]_vars

\* C15 (amended): a TTransportException of accept() is not logged if, when the
\* catch clause tests it (line 199), the stop flag is set and the exception
\* is of type INTERRUPTED; otherwise it is logged as an accept-loop error;
\* either way the loop goes on to its next test of the stop flag.
C15_AcceptFailureLoggingAmended ==
  [][(sv.pc = "catch" /\ sv.exc \in TransportFailures /\ sv.cur = 0 /\ sv' # sv) =>
       /\ sv'.pc = "loopTest"
       /\ sv'.log = (IF stop_ /\ sv.exc = "ttxI" THEN "none" ELSE "accept")]_vars

\* C15 witness: accept() failed with a TTransportException of another type
\* than INTERRUPTED while the stop flag was set and a worker was running, and
\* the clause has logged it.
C15_Witness ==
  /\ \E c \in Conns : Running(c)
  /\ sv.pc = "loopTest"
  /\ sv.cur = 0
  /\ sv.exc = "ttxO"
  /\ sv.stopAtExc
  /\ stop_
  /\ sv.log = "accept"

\* C16 (as claimed): an accept iteration that fails with an error that is
\* neither a TTransportException nor another TException is logged and ends
\* the loop; serve() then returns without the shutdown path, whatever the
\* stop flag is: the listening transport, the stop flag and the registry are
\* as they were, registered workers included.
C16_UnknownErrorAbandons ==
  /\ [][(sv.pc = "catch" /\ sv.exc \in {"str", "other"} /\ sv' # sv) =>
          /\ sv'.pc = "afterLoop"
          /\ sv'.log = "unknown"]_vars
  /\ [][(sv.pc = "afterLoop" /\ sv.exc = "str" /\ sv' # sv) =>
          /\ sv'.pc = "idle"
          /\ lastResult' = "abandoned"
          /\ UNCHANGED <<serverTransport_, stop_, tasks_>>]_vars

\* C17: a deregistration calls notify() if and only if its erase leaves the
\* registry empty, and does both while it holds the monitor's mutex, which it
\* then releases; nothing else calls notify(), and a wake-up becomes pending
\* only by such a call.
C17_NotifyIffEmpty ==
  /\ [][\A c \in Conns :
          (task[c].pc = "locked" /\ task'[c].pc # "locked") =>
            /\ monitorLocked
            /\ ~monitorLocked'
            /\ tasks_' = tasks_ \ {task[c].id}
            /\ (c \in signals') <=> (tasks_' = {})]_vars
  /\ [][signals' # signals =>
          \E c \in Conns :
            /\ task[c].pc = "locked"
            /\ c \notin signals
            /\ signals' = signals \cup {c}]_vars
  /\ [][(notified' /\ ~notified) => signals' # signals]_vars
  /\ [](\A c \in Conns : task[c].pc = "locked" => monitorLocked)

\* C17 witness: a worker has deregistered while the entry of another worker,
\* which an exception took out of run(), was in the registry: its erase left
\* the registry non-empty and it did not notify.
C17_Witness ==
  /\ task[1].pc = "escaped"
  /\ tasks_ = {task[1].id}
  /\ task[2].pc = "done"
  /\ signals = {}

\* C18: with an event handler installed, a worker has called clientBegin once
\* when it first calls process(), calls clientEnd once when its loop has
\* ended, whatever ended it, and closes a channel or deregisters only after
\* that call; the hooks are called nowhere else, and not at all without a
\* handler.
C18_HooksOncePerConnection ==
  /\ [](\A c \in Conns :
          LET t == task[c]
              h == IF eventHandler_ THEN 1 ELSE 0
          IN /\ t.pc \in {"process", "peek", "end"} =>
                  /\ t.begins = h
                  /\ t.ends = 0
                  /\ chan[c].in = 0
                  /\ chan[c].out = 0
                  /\ InRegistry(c)
             /\ t.pc \in {"closeIn", "closeOut", "dereg", "locked"} =>
                  /\ t.begins = h
                  /\ t.ends = h
             /\ (chan[c].in > 0 \/ chan[c].out > 0) /\ Running(c) => t.ends = h)
  /\ [][\A c \in Conns :
          /\ task'[c].begins > task[c].begins =>
                task[c].pc = "begin" /\ task[c].calls = 0 /\ task'[c].pc = "process"
          /\ task'[c].ends > task[c].ends =>
                task[c].pc = "end" /\ task'[c].pc = "closeIn"
          /\ (task[c].pc \in {"process", "peek"} /\ task'[c].pc \notin {"process", "peek"}) =>
                task'[c].pc = "end"]_vars

\* C18 witness: with a handler installed, a worker whose process() threw an
\* unknown exception has called clientEnd and has closed nothing yet, while
\* another worker is holding the monitor's mutex to deregister.
C18_Witness ==
  \E c, d \in Conns :
    /\ eventHandler_
    /\ task[c].pc = "closeIn"
    /\ task[c].lastProc = "unknown"
    /\ task[c].begins = 1
    /\ task[c].ends = 1
    /\ chan[c].in = 0
    /\ task[d].pc = "locked"

\* C19 (as claimed): whenever the accept loop is at its loop test, the
\* registry holds no identity that belongs only to tasks whose thread was
\* never started.
C19_NoEntryOfUnstartedTask ==
  sv.pc = "loopTest" =>
    \A a \in tasks_ : \E c \in Conns : task[c].id = a /\ task[c].pc # "dropped"

\* serve() has just read the stop flag as true at its loop test (line 156).
StopObserved == sv.pc = "afterLoop" /\ sv.exc = "none"

\* serve() is past its accept loop (lines 222-239).
PastLoop ==
  sv.pc \in {"afterLoop", "closeServer", "waitLock", "waitTest", "waiting", "reset"}

\* C20 (as claimed): once the loop test has read the stop flag as true,
\* serve() accepts no further connection and registers no further task, and,
\* every thread being scheduled fairly and every call of a worker and
\* accept() returning, serve() eventually returns.
C20_ShutdownTerminates ==
  /\ [][PastLoop => nextConn' = nextConn /\ tasks_' \subseteq tasks_]_vars
  /\ (StopObserved ~> sv.pc = "idle")

====
